---- MODULE Spec2Model ----
(***************************************************************************)
(* Model of the YouTube transcript chat assistant: the retrieval variant   *)
(* (main.py) and the full-context variant (App.py).                        *)
(*                                                                         *)
(* A Python str is the sequence of its code points: "v=" is << 118, 61 >>. *)
(* An Optional value is a sequence of length at most one: None is << >>,   *)
(* a present value x is << x >>.                                           *)
(***************************************************************************)
EXTENDS Integers, Sequences, FiniteSets, TLC

VARIABLES
    variant,          \* which script serves the session: "main" or "App"
    transcript_text,  \* st.session_state.transcript_text
    vectorstore,      \* st.session_state.vectorstore (main.py only)
    video_title,      \* st.session_state.video_title
    messages,         \* what the handlers of the last script run displayed
    calls,            \* external calls made by the last script run
    last,             \* the user action that started the last script run
    prompt,           \* what the last script run sent to the language model
    loaded,           \* history: the latest fetch action with non-empty input
    sinceClear,       \* history: cleared, and no successful fetch since
    in_url,           \* input of the identifier extraction
    out_video_id,     \* its result
    in_text,          \* input of the chunker
    out_chunks        \* its result

vars == << variant, transcript_text, vectorstore, video_title, messages, calls,
           last, prompt, loaded, sinceClear,
           in_url, out_video_id, in_text, out_chunks >>

sessionVars == << variant, transcript_text, vectorstore, video_title, messages,
                  calls, last, prompt, loaded, sinceClear >>
extractVars == << in_url, out_video_id >>
chunkVars   == << in_text, out_chunks >>

----------------------------------------------------------------------------
(* Python values *)

None    == << >>
Some(x) == << x >>

Min(a, b) == IF a <= b THEN a ELSE b

\* the code points str.strip() removes: \t \n \x0b \x0c \r, \x1c-\x1f, space,
\* \x85, \xa0, \u1680, \u2000-\u200a, \u2028, \u2029, \u202f, \u205f, \u3000
Whitespace ==
    { 9, 10, 11, 12, 13, 28, 29, 30, 31, 32, 133, 160, 5760 }
        \cup (8192..8202) \cup { 8232, 8233, 8239, 8287, 12288 }

\* s[i:] and s[:j] on one-based positions
Drop(s, n) == SubSeq(s, n + 1, Len(s))
Take(s, n) == SubSeq(s, 1, n)

\* sub occurs in s at position i
OccursAt(s, sub, i) ==
    /\ i >= 1
    /\ i + Len(sub) - 1 <= Len(s)
    /\ SubSeq(s, i, i + Len(sub) - 1) = sub

\* s.find(sub) from position i on, one-based; 0 when sub is not found
RECURSIVE FindFrom(_, _, _)
FindFrom(s, sub, i) ==
    IF i + Len(sub) - 1 > Len(s) THEN 0
    ELSE IF OccursAt(s, sub, i) THEN i
    ELSE FindFrom(s, sub, i + 1)

Find(s, sub) == FindFrom(s, sub, 1)

\* sub in s, for a non-empty sub
Contains(s, sub) == Find(s, sub) # 0

\* s.split(sep), for a non-empty sep
RECURSIVE split(_, _)
split(s, sep) ==
    LET i == Find(s, sep)
    IN  IF i = 0
        THEN << s >>
        ELSE << Take(s, i - 1) >> \o split(Drop(s, i + Len(sep) - 1), sep)

\* s.strip()
RECURSIVE lstrip(_)
lstrip(s) == IF s # << >> /\ Head(s) \in Whitespace THEN lstrip(Tail(s)) ELSE s

RECURSIVE rstrip(_)
rstrip(s) ==
    IF s # << >> /\ s[Len(s)] \in Whitespace THEN rstrip(Take(s, Len(s) - 1)) ELSE s

strip(s) == rstrip(lstrip(s))

\* sep.join(parts)
RECURSIVE join(_, _)
join(sep, parts) ==
    IF parts = << >> THEN << >>
    ELSE IF Len(parts) = 1 THEN parts[1]
    ELSE parts[1] \o sep \o join(sep, Tail(parts))

\* the concatenations of at most n members of parts
RECURSIVE Concats(_, _)
Concats(parts, n) ==
    IF n = 0 THEN { << >> }
    ELSE LET shorter == Concats(parts, n - 1)
         IN  shorter \cup { p \o s : p \in parts, s \in shorter }

----------------------------------------------------------------------------
(* Identifier extraction: main.py 52-57, App.py 43-48 *)

STR_V_EQ     == << 118, 61 >>                                   \* "v="
STR_YOUTU_BE == << 121, 111, 117, 116, 117, 46, 98, 101, 47 >>  \* "youtu.be/"
STR_AMP      == << 38 >>                                        \* "&"
STR_QMARK    == << 63 >>                                        \* "?"

\* a broken extraction: the short-link test is made before the v= test
video_id_short_link_first(video_url) ==
    IF Contains(video_url, STR_YOUTU_BE)
    THEN split(split(video_url, STR_YOUTU_BE)[2], STR_QMARK)[1]
    ELSE IF Contains(video_url, STR_V_EQ)
    THEN split(split(video_url, STR_V_EQ)[2], STR_AMP)[1]
    ELSE strip(video_url)

extract_video_id(video_url) ==
    IF Contains(video_url, STR_V_EQ)
    THEN split(split(video_url, STR_V_EQ)[2], STR_AMP)[1]
    ELSE IF Contains(video_url, STR_YOUTU_BE)
    THEN split(split(video_url, STR_YOUTU_BE)[2], STR_QMARK)[1]
    ELSE strip(video_url)

----------------------------------------------------------------------------
(* Chunker: RecursiveCharacterTextSplitter(chunk_size=1000,               *)
(* chunk_overlap=200, length_function=len).split_text, main.py 69-74.      *)
(* The splitter keeps its defaults: separators "\n\n", "\n", " ", "",      *)
(* keep_separator=True, strip_whitespace=True.                             *)

chunk_size    == 1000
chunk_overlap == 200

\* "\n\n", "\n", " ", ""
separators == << << 10, 10 >>, << 10 >>, << 32 >>, << >> >>

NonEmpty(s) == s # << >>

\* list(text)
Chars(text) == [i \in 1..Len(text) |-> << text[i] >>]

\* the pieces of text between the separators, each separator kept at the
\* start of the piece that follows it; empty pieces are dropped
split_text_with_regex(text, separator) ==
    LET splits ==
            IF separator # << >>
            THEN LET pieces == split(text, separator)
                 IN  [i \in 1..Len(pieces) |->
                        IF i = 1 THEN pieces[1] ELSE separator \o pieces[i]]
            ELSE Chars(text)
    IN  SelectSeq(splits, NonEmpty)

\* a joined chunk that keeps its surrounding whitespace
join_docs_unstripped(docs, separator) ==
    LET text == join(separator, docs)
    IN  IF text = << >> THEN None ELSE Some(text)

\* the joined chunk, stripped; None when nothing is left
join_docs(docs, separator) ==
    LET text == strip(join(separator, docs))
    IN  IF text = << >> THEN None ELSE Some(text)

SepLen(separator, present) == IF present THEN Len(separator) ELSE 0

\* the while loop of merge_splits: drop leading pieces of current_doc until the
\* overlap fits; yields << current_doc, total >>
RECURSIVE merge_shrink(_, _, _, _)
merge_shrink(current_doc, total, len_d, separator) ==
    IF \/ total > chunk_overlap
       \/ /\ total + len_d + SepLen(separator, Len(current_doc) > 0) > chunk_size
          /\ total > 0
    THEN merge_shrink(Tail(current_doc),
                      total - (Len(current_doc[1])
                               + SepLen(separator, Len(current_doc) > 1)),
                      len_d, separator)
    ELSE << current_doc, total >>

\* the for loop of merge_splits from piece i on
RECURSIVE merge_loop(_, _, _, _, _, _)
merge_loop(splits, i, docs, current_doc, total, separator) ==
    IF i > Len(splits)
    THEN docs \o join_docs(current_doc, separator)
    ELSE LET d     == splits[i]
             over  == total + Len(d) + SepLen(separator, Len(current_doc) > 0)
                        > chunk_size
             flush == over /\ Len(current_doc) > 0
             docs2 == IF flush THEN docs \o join_docs(current_doc, separator)
                               ELSE docs
             kept  == IF flush THEN merge_shrink(current_doc, total, Len(d), separator)
                               ELSE << current_doc, total >>
             doc2  == Append(kept[1], d)
         IN  merge_loop(splits, i + 1, docs2, doc2,
                        kept[2] + Len(d) + SepLen(separator, Len(doc2) > 1),
                        separator)

merge_splits(splits, separator) == merge_loop(splits, 1, << >>, << >>, 0, separator)

\* the position in seps of the separator _split_text picks: the first that is
\* empty or occurs in the text, else the last
PickSeparator(text, seps) ==
    IF \E i \in 1..Len(seps) : seps[i] = << >> \/ Contains(text, seps[i])
    THEN CHOOSE i \in 1..Len(seps) :
            /\ seps[i] = << >> \/ Contains(text, seps[i])
            /\ \A j \in 1..(i - 1) : ~(seps[j] = << >> \/ Contains(text, seps[j]))
    ELSE Len(seps)

RECURSIVE split_text_rec(_, _)
RECURSIVE split_loop(_, _, _, _, _)

\* the for loop of _split_text from piece i on
split_loop(splits, i, final_chunks, good_splits, new_separators) ==
    LET flushed == IF good_splits # << >>
                   THEN final_chunks \o merge_splits(good_splits, << >>)
                   ELSE final_chunks
    IN  IF i > Len(splits)
        THEN flushed
        ELSE IF Len(splits[i]) < chunk_size
        THEN split_loop(splits, i + 1, final_chunks,
                        Append(good_splits, splits[i]), new_separators)
        ELSE split_loop(splits, i + 1,
                        flushed \o (IF new_separators = << >>
                                    THEN << splits[i] >>
                                    ELSE split_text_rec(splits[i], new_separators)),
                        << >>, new_separators)

split_text_rec(text, seps) ==
    LET c              == PickSeparator(text, seps)
        separator      == seps[c]
        found          == separator # << >> /\ Contains(text, separator)
        new_separators == IF found THEN Drop(seps, c) ELSE << >>
    IN  split_loop(split_text_with_regex(text, separator), 1, << >>, << >>,
                   new_separators)

split_text(text) == split_text_rec(text, separators)

----------------------------------------------------------------------------
(* Session state and what a script run shows *)

Session(t, v, l) == [transcript_text |-> t, vectorstore |-> v, video_title |-> l]

CurrentSession == Session(transcript_text, vectorstore, video_title)

\* st.error / st.info / st.success / st.markdown / st.text_area, without emoji
Shown(fn, text, arg) == [fn |-> fn, text |-> text, arg |-> arg]

MSG_DISABLED   == "Transcripts are disabled for this video."
MSG_NOT_FOUND  == "No transcript found for this video. The video may not have captions."
MSG_PROCESSING == "Error during processing: "
MSG_FETCH_HINT == "Make sure the URL is correct and the video has captions enabled."
MSG_GENERATING == "Error generating response: "
MSG_ASK_HINT   == "Try rephrasing your question or check your API key."
MSG_PROCESSED  == "Transcript successfully processed! Split into {} chunks."
MSG_FETCHED    == "Transcript successfully fetched!"
MSG_LENGTH     == "Transcript length: {} characters"
MSG_PREVIEW    == "First 2000 characters:"
MSG_RESPONSE   == "### AI Response:"

STR_VIDEO_ID == << 86, 105, 100, 101, 111, 32, 73, 68, 58, 32 >>  \* "Video ID: "
STR_ELLIPSIS == << 46, 46, 46 >>                                  \* "..."
STR_SPACE    == << 32 >>                                          \* " "
STR_PARA     == << 10, 10 >>                                      \* "\n\n"

preview_limit == 2000

\* the text of the transcript preview
preview(text) ==
    Take(text, Min(preview_limit, Len(text)))
        \o (IF Len(text) > preview_limit THEN STR_ELLIPSIS ELSE << >>)

NoCalls == [captions |-> 0, from_texts |-> 0, retriever |-> 0, llm |-> 0]

\* exceptions the collaborators raise
Raised(type, text) == [type |-> type, text |-> text]
NotRaised == Raised("", "")

\* the retrieval variant shows the chat section when the index is set
main_chat_gate(s) == s.vectorstore # None

\* a chat section shown whatever the session holds
App_chat_gate_open(s) == TRUE

\* the full-context variant shows it when the transcript is non-empty
App_chat_gate(s) == s.transcript_text # << >>

ChatAvailable ==
    IF variant = "main" THEN main_chat_gate(CurrentSession)
                        ELSE App_chat_gate(CurrentSession)

----------------------------------------------------------------------------
(* Fetch *)

\* a fetch that keeps the previously loaded video
fetch_reset_skipped(s) == s

\* st.session_state is reset before the new video is tried
fetch_reset(s) == Session(<< >>, None, << >>)

\* except clauses with the catch-all first
fetch_except_generic_first(e) ==
    << Shown("error", MSG_PROCESSING, e.text), Shown("info", MSG_FETCH_HINT, "") >>

\* the except clauses of the fetch handler, in their order
fetch_except(e) ==
    IF e.type = "TranscriptsDisabled"
    THEN << Shown("error", MSG_DISABLED, "") >>
    ELSE IF e.type = "NoTranscriptFound"
    THEN << Shown("error", MSG_NOT_FOUND, "") >>
    ELSE << Shown("error", MSG_PROCESSING, e.text),
            Shown("info", MSG_FETCH_HINT, "") >>

\* FAISS.from_texts: the index holds the texts it was built from; it raises
\* the embedding service's error, and IndexError on an empty list of texts
FAISS_from_texts(chunks, emb) ==
    IF chunks = << >>
    THEN [ok |-> FALSE, index |-> [texts |-> << >>],
          raised |-> Raised("IndexError", "list index out of range")]
    ELSE IF emb.ok
    THEN [ok |-> TRUE, index |-> [texts |-> chunks], raised |-> NotRaised]
    ELSE [ok |-> FALSE, index |-> [texts |-> << >>], raised |-> emb.raised]

\* an index stored although its construction raised
store_index_partial(s, built) ==
    [s EXCEPT !.vectorstore = Some(built.index)]

\* line 78: the assignment happens only when FAISS.from_texts returns
store_index(s, built) ==
    IF built.ok THEN [s EXCEPT !.vectorstore = Some(built.index)] ELSE s

\* ytt_api.fetch(video_id): one call, whose outcome is the service's
fetch_captions(cap) == [result |-> cap, calls |-> 1]

\* main.py 43-100: what the handler leaves in the session, shows and calls
main_fetch(s, video_url, cap, emb) ==
    LET s1       == fetch_reset(s)
        video_id == extract_video_id(video_url)
        s2       == [s1 EXCEPT !.video_title = STR_VIDEO_ID \o video_id]
        fetched  == fetch_captions(cap)
    IN  IF ~fetched.result.ok
        THEN [session  |-> s2,
              messages |-> fetch_except(fetched.result.raised),
              calls    |-> [NoCalls EXCEPT !.captions = fetched.calls],
              ok       |-> FALSE,
              failed   |-> "captions",
              raised   |-> fetched.result.raised.type]
        ELSE
        LET text   == join(STR_SPACE, fetched.result.snippets)
            s3     == [s2 EXCEPT !.transcript_text = text]
            chunks == split_text(text)
            built  == FAISS_from_texts(chunks, emb)
            called == [NoCalls EXCEPT !.captions = fetched.calls, !.from_texts = 1]
        IN  IF ~built.ok
            THEN [session  |-> store_index(s3, built),
                  messages |-> fetch_except(built.raised),
                  calls    |-> called,
                  ok       |-> FALSE,
                  failed   |-> "index",
                  raised   |-> built.raised.type]
            ELSE [session  |-> store_index(s3, built),
                  messages |-> << Shown("success", MSG_PROCESSED, Len(chunks)),
                                  Shown("info", MSG_LENGTH, Len(text)),
                                  Shown("text_area", MSG_PREVIEW, preview(text)) >>,
                  calls    |-> called,
                  ok       |-> TRUE,
                  failed   |-> "none",
                  raised   |-> ""]

\* App.py 35-79; this variant keeps no index in its session
App_fetch(s, video_url, cap) ==
    LET s1       == [fetch_reset(s) EXCEPT !.vectorstore = s.vectorstore]
        video_id == extract_video_id(video_url)
        s2       == [s1 EXCEPT !.video_title = STR_VIDEO_ID \o video_id]
        fetched  == fetch_captions(cap)
    IN  IF ~fetched.result.ok
        THEN [session  |-> s2,
              messages |-> fetch_except(fetched.result.raised),
              calls    |-> [NoCalls EXCEPT !.captions = fetched.calls],
              ok       |-> FALSE,
              failed   |-> "captions",
              raised   |-> fetched.result.raised.type]
        ELSE
        LET text == join(STR_SPACE, fetched.result.snippets)
        IN  [session  |-> [s2 EXCEPT !.transcript_text = text],
             messages |-> << Shown("success", MSG_FETCHED, ""),
                             Shown("info", MSG_LENGTH, Len(text)),
                             Shown("text_area", MSG_PREVIEW, preview(text)) >>,
             calls    |-> [NoCalls EXCEPT !.captions = fetched.calls],
             ok       |-> TRUE,
             failed   |-> "none",
             raised   |-> ""]

\* a click on the fetch button that resets the session although the URL is empty
fetch_click_without_url_resets(s) == fetch_reset(s)

\* `if fetch_button and video_url` with an empty video_url: the body is skipped
fetch_click_without_url(s) == s

----------------------------------------------------------------------------
(* Ask and clear *)

k == 4

\* what the retriever may return for a question: min(k, n) distinct chunks of
\* the index, in the order the similarity search ranks them
TopK(texts, n) ==
    { r \in [1..Min(n, Len(texts)) -> 1..Len(texts)] :
        \A i, j \in DOMAIN r : i # j => r[i] # r[j] }

\* the except clause of the generate handler
ask_except(e) ==
    << Shown("error", MSG_GENERATING, e.text), Shown("info", MSG_ASK_HINT, "") >>

\* a completion call tried again after it raised
invoke_llm_retried(llm) ==
    [result |-> llm, calls |-> IF llm.ok THEN 1 ELSE 2]

\* llm.invoke / the chain's single completion call
invoke_llm(llm) == [result |-> llm, calls |-> 1]

\* main.py 128-179: ret is what the retriever does (the query embedding and the
\* search), llm what the completion service does
main_ask(s, user_input, ret, llm) ==
    IF ~ret.ok
    THEN [session  |-> s,
          messages |-> ask_except(ret.raised),
          calls    |-> [NoCalls EXCEPT !.retriever = 1],
          prompt   |-> None,
          failed   |-> "retriever",
          raised   |-> ret.raised.type]
    ELSE
    LET texts   == s.vectorstore[1].texts
        docs    == [i \in 1..Len(ret.ranked) |-> texts[ret.ranked[i]]]
        sent    == [context |-> join(STR_PARA, docs), question |-> user_input]
        invoked == invoke_llm(llm)
        called  == [NoCalls EXCEPT !.retriever = 1, !.llm = invoked.calls]
    IN  IF ~invoked.result.ok
        THEN [session  |-> s,
              messages |-> ask_except(invoked.result.raised),
              calls    |-> called,
              prompt   |-> Some(sent),
              failed   |-> "llm",
              raised   |-> invoked.result.raised.type]
        ELSE [session  |-> s,
              messages |-> << Shown("markdown", MSG_RESPONSE, ""),
                              Shown("markdown", "{}", invoked.result.answer) >>,
              calls    |-> called,
              prompt   |-> Some(sent),
              failed   |-> "none",
              raised   |-> ""]

\* App.py 106-141: the whole transcript is the context
App_ask(s, user_input, llm) ==
    LET sent    == [context |-> s.transcript_text, question |-> user_input]
        invoked == invoke_llm(llm)
        called  == [NoCalls EXCEPT !.llm = invoked.calls]
    IN  IF ~invoked.result.ok
        THEN [session  |-> s,
              messages |-> ask_except(invoked.result.raised),
              calls    |-> called,
              prompt   |-> Some(sent),
              failed   |-> "llm",
              raised   |-> invoked.result.raised.type]
        ELSE [session  |-> s,
              messages |-> << Shown("markdown", MSG_RESPONSE, ""),
                              Shown("markdown", "{}", invoked.result.answer) >>,
              calls    |-> called,
              prompt   |-> Some(sent),
              failed   |-> "none",
              raised   |-> ""]

\* a clear that leaves the index in place
clear_session_keeps_index(s) ==
    [s EXCEPT !.transcript_text = << >>, !.video_title = << >>]

\* the Clear button: main.py 122-126
clear_session(s) == Session(<< >>, None, << >>)

\* the Clear button: App.py 101-104
App_clear_session(s) ==
    [s EXCEPT !.transcript_text = << >>, !.video_title = << >>]

----------------------------------------------------------------------------
(* Inputs *)

MaxSnippets == 2
MaxUrlParts == 4
MaxTextLen  == 5

STR_ABC123 == << 65, 66, 67, 49, 50, 51 >>   \* "ABC123"

\* "https://www.youtube.com/watch?v=ABC123&t=5"
URL_WATCH ==
    << 104, 116, 116, 112, 115, 58, 47, 47, 119, 119, 119, 46,
       121, 111, 117, 116, 117, 98, 101, 46, 99, 111, 109, 47,
       119, 97, 116, 99, 104, 63, 118, 61 >> \o STR_ABC123
        \o << 38, 116, 61, 53 >>

\* "https://youtu.be/ABC123?t=5"
URL_SHORT ==
    << 104, 116, 116, 112, 115, 58, 47, 47 >> \o STR_YOUTU_BE \o STR_ABC123
        \o << 63, 116, 61, 53 >>

ExampleUrls == { URL_WATCH, URL_SHORT, STR_ABC123 }

\* what the user may type into the URL box during a session:
\* "", " x\x0c", "v=A&t", "youtu.be/B?t"
SessionUrls ==
    { << >>, << 32, 120, 12 >>,
      STR_V_EQ \o << 65, 38, 116 >>, STR_YOUTU_BE \o << 66, 63, 116 >> }

\* inputs of the identifier extraction: built from the two markers, "&", "?",
\* "A", " " and the form feed "\x0c"
UrlParts  ==
    { STR_V_EQ, STR_YOUTU_BE, STR_AMP, STR_QMARK, << 65 >>, << 32 >>, << 12 >> }
UrlInputs == ExampleUrls \cup Concats(UrlParts, MaxUrlParts)

\* inputs of the chunker: texts over "a", " ", "\n" and the no-break space "\xa0"
TextChars  == { << 97 >>, << 32 >>, << 10 >>, << 160 >> }
TextInputs == Concats(TextChars, MaxTextLen)

\* caption snippets the captions service may return: "a", " b\n"
SnippetTexts == { << 97 >>, << 32, 98, 10 >> }

RECURSIVE SeqsUpTo(_, _)
SeqsUpTo(S, n) ==
    IF n = 0 THEN { << >> }
    ELSE LET shorter == SeqsUpTo(S, n - 1)
         IN  shorter \cup { << x >> \o q : x \in S, q \in shorter }

CaptionsErrors == { "TranscriptsDisabled", "NoTranscriptFound", "VideoUnavailable" }

CaptionsOutcomes ==
    { [ok |-> TRUE, snippets |-> sn, raised |-> NotRaised] :
        sn \in SeqsUpTo(SnippetTexts, MaxSnippets) }
    \cup { [ok |-> FALSE, snippets |-> << >>, raised |-> Raised(t, t)] :
            t \in CaptionsErrors }

EmbedOutcomes ==
    { [ok |-> TRUE, raised |-> NotRaised],
      [ok |-> FALSE, raised |-> Raised("GoogleGenerativeAIError", "embedding failed")] }

RetrieverOutcomes(texts) ==
    { [ok |-> TRUE, ranked |-> r, raised |-> NotRaised] : r \in TopK(texts, k) }
    \cup { [ok |-> FALSE, ranked |-> << >>,
            raised |-> Raised("GoogleGenerativeAIError", "embedding failed")] }

LlmOutcomes ==
    { [ok |-> TRUE, answer |-> "answer", raised |-> NotRaised],
      [ok |-> FALSE, answer |-> "",
       raised |-> Raised("ChatGoogleGenerativeAIError", "completion failed")] }

\* "q", "why"
Questions == { << 113 >>, << 119, 104, 121 >> }

----------------------------------------------------------------------------
(* The session: one action per script run *)

Action(kind, ok, failed, raised) ==
    [kind |-> kind, ok |-> ok, failed |-> failed, raised |-> raised]

IdleExtract == in_url = << >> /\ out_video_id = None
IdleChunk   == in_text = << >> /\ out_chunks = None

\* main.py 29-34, App.py 23-26: the first script run of a session
Init ==
    /\ variant \in { "main", "App" }
    /\ transcript_text = << >>
    /\ vectorstore = None
    /\ video_title = << >>
    /\ messages = << >>
    /\ calls = NoCalls
    /\ last = Action("start", FALSE, "none", "")
    /\ prompt = None
    /\ loaded = None
    /\ sinceClear = FALSE
    /\ IdleExtract
    /\ IdleChunk

SetSession(s) ==
    /\ transcript_text' = s.transcript_text
    /\ vectorstore' = s.vectorstore
    /\ video_title' = s.video_title

\* the fetch button with a URL typed in, retrieval variant
MainFetch ==
    /\ variant = "main"
    /\ \E video_url \in SessionUrls \ { << >> }, cap \in CaptionsOutcomes,
          emb \in EmbedOutcomes :
          LET r == main_fetch(CurrentSession, video_url, cap, emb)
          IN  /\ SetSession(r.session)
              /\ messages' = r.messages
              /\ calls' = r.calls
              /\ last' = Action("fetch", r.ok, r.failed, r.raised)
              /\ prompt' = None
              /\ loaded' = Some([text |-> join(STR_SPACE, cap.snippets), ok |-> r.ok])
              /\ sinceClear' = (sinceClear /\ ~r.ok)
    /\ UNCHANGED << variant, extractVars, chunkVars >>

\* the fetch button with a URL typed in, full-context variant
AppFetch ==
    /\ variant = "App"
    /\ \E video_url \in SessionUrls \ { << >> }, cap \in CaptionsOutcomes :
          LET r == App_fetch(CurrentSession, video_url, cap)
          IN  /\ SetSession(r.session)
              /\ messages' = r.messages
              /\ calls' = r.calls
              /\ last' = Action("fetch", r.ok, r.failed, r.raised)
              /\ prompt' = None
              /\ loaded' = Some([text |-> join(STR_SPACE, cap.snippets), ok |-> r.ok])
              /\ sinceClear' = (sinceClear /\ ~r.ok)
    /\ UNCHANGED << variant, extractVars, chunkVars >>

\* the fetch button with the URL box empty
FetchEmpty ==
    /\ SetSession(fetch_click_without_url(CurrentSession))
    /\ messages' = << >>
    /\ calls' = NoCalls
    /\ last' = Action("fetch_empty", FALSE, "none", "")
    /\ prompt' = None
    /\ UNCHANGED << variant, loaded, sinceClear, extractVars, chunkVars >>

\* the generate button with a question typed in, retrieval variant
MainAsk ==
    /\ variant = "main"
    /\ main_chat_gate(CurrentSession)
    /\ \E user_input \in Questions, llm \in LlmOutcomes,
          ret \in RetrieverOutcomes(vectorstore[1].texts) :
          LET r == main_ask(CurrentSession, user_input, ret, llm)
          IN  /\ SetSession(r.session)
              /\ messages' = r.messages
              /\ calls' = r.calls
              /\ last' = Action("ask", r.failed = "none", r.failed, r.raised)
              /\ prompt' = r.prompt
    /\ UNCHANGED << variant, loaded, sinceClear, extractVars, chunkVars >>

\* the generate button with a question typed in, full-context variant
AppAsk ==
    /\ variant = "App"
    /\ App_chat_gate(CurrentSession)
    /\ \E user_input \in Questions, llm \in LlmOutcomes :
          LET r == App_ask(CurrentSession, user_input, llm)
          IN  /\ SetSession(r.session)
              /\ messages' = r.messages
              /\ calls' = r.calls
              /\ last' = Action("ask", r.failed = "none", r.failed, r.raised)
              /\ prompt' = r.prompt
    /\ UNCHANGED << variant, loaded, sinceClear, extractVars, chunkVars >>

\* the generate button with the question box empty
AskEmpty ==
    /\ ChatAvailable
    /\ messages' = << >>
    /\ calls' = NoCalls
    /\ last' = Action("ask_empty", FALSE, "none", "")
    /\ prompt' = None
    /\ UNCHANGED << variant, transcript_text, vectorstore, video_title, loaded,
                    sinceClear, extractVars, chunkVars >>

\* the Clear button, and the rerun it asks for
Clear ==
    /\ ChatAvailable
    /\ SetSession(IF variant = "main" THEN clear_session(CurrentSession)
                                      ELSE App_clear_session(CurrentSession))
    /\ messages' = << >>
    /\ calls' = NoCalls
    /\ last' = Action("clear", FALSE, "none", "")
    /\ prompt' = None
    /\ sinceClear' = TRUE
    /\ UNCHANGED << variant, loaded, extractVars, chunkVars >>

Next ==
    \/ MainFetch
    \/ AppFetch
    \/ FetchEmpty
    \/ MainAsk
    \/ AppAsk
    \/ AskEmpty
    \/ Clear

Spec == Init /\ [][Next]_vars

----------------------------------------------------------------------------
(* The identifier extraction on its own *)

IdleSession ==
    /\ variant = "main"
    /\ transcript_text = << >>
    /\ vectorstore = None
    /\ video_title = << >>
    /\ messages = << >>
    /\ calls = NoCalls
    /\ last = Action("start", FALSE, "none", "")
    /\ prompt = None
    /\ loaded = None
    /\ sinceClear = FALSE

InitExtract ==
    /\ in_url \in UrlInputs
    /\ out_video_id = None
    /\ IdleSession
    /\ IdleChunk

Extract ==
    /\ out_video_id = None
    /\ out_video_id' = Some(extract_video_id(in_url))
    /\ UNCHANGED << in_url, sessionVars, chunkVars >>

NextExtract == Extract

SpecExtract == InitExtract /\ [][NextExtract]_vars

----------------------------------------------------------------------------
(* The chunker on its own *)

InitChunk ==
    /\ in_text \in TextInputs
    /\ out_chunks = None
    /\ IdleSession
    /\ IdleExtract

Chunk ==
    /\ out_chunks = None
    /\ out_chunks' = Some(split_text(in_text))
    /\ UNCHANGED << in_text, sessionVars, extractVars >>

NextChunk == Chunk

SpecChunk == InitChunk /\ [][NextChunk]_vars

----------------------------------------------------------------------------
(* Claims about the session *)

IsError(m) == m.fn = "error"

Errors == SelectSeq(messages, IsError)

Showed(fn, text) == \E i \in DOMAIN messages : messages[i].fn = fn /\ messages[i].text = text

SessionEmpty == transcript_text = << >> /\ vectorstore = None /\ video_title = << >>

\* C1: in the retrieval variant the index is absent, or it is the index built
\* from the chunks of the transcript text the session holds now
C1_IndexBuiltFromCurrentTranscript ==
    variant = "main" =>
        \/ vectorstore = None
        \/ vectorstore[1].texts = split_text(transcript_text)

\* a fetch has built an index over a one-chunk transcript
C1_Witness ==
    /\ variant = "main"
    /\ last.kind = "fetch"
    /\ last.ok
    /\ vectorstore # None
    /\ Len(vectorstore[1].texts) = 1

\* C2: clear empties transcript, index and label, and from a clear on the
\* question interface stays unavailable until a fetch completes successfully
C2_ClearedUntilSuccessfulFetch ==
    /\ last.kind = "clear" => SessionEmpty
    /\ sinceClear => ~ChatAvailable

\* a fetch failed after a clear
C2_Witness ==
    /\ sinceClear
    /\ last.kind = "fetch"
    /\ ~last.ok
    /\ ~ChatAvailable

\* C3: when the transcript was obtained and the index construction failed,
\* the index is absent, the question interface is unavailable, and the
\* transcript text is stored
C3_NoIndexAfterBuildFailure ==
    (variant = "main" /\ last.kind = "fetch" /\ last.failed = "index") =>
        /\ vectorstore = None
        /\ ~ChatAvailable
        /\ transcript_text = loaded[1].text

\* the embedding service failed on a non-empty transcript
C3_Witness ==
    /\ variant = "main"
    /\ last.kind = "fetch"
    /\ last.failed = "index"
    /\ last.raised = "GoogleGenerativeAIError"
    /\ transcript_text # << >>

\* C5: a failure of the captions service shows exactly one error message, of
\* the kind of the failure: disabled, not found, or the generic one carrying
\* the error's text
C5_CaptionsFailureHasItsOwnMessage ==
    (last.kind = "fetch" /\ last.failed = "captions") =>
        /\ Len(Errors) = 1
        /\ IF last.raised = "TranscriptsDisabled"
           THEN Errors[1].text = MSG_DISABLED
           ELSE IF last.raised = "NoTranscriptFound"
           THEN Errors[1].text = MSG_NOT_FOUND
           ELSE Errors[1].text = MSG_PROCESSING /\ Errors[1].arg = last.raised

\* the captions service reported captions disabled
C5_Witness ==
    /\ last.kind = "fetch"
    /\ last.failed = "captions"
    /\ last.raised = "TranscriptsDisabled"
    /\ Showed("error", MSG_DISABLED)

ModelCallFailed ==
    \/ last.kind = "fetch" /\ last.failed = "index"
         /\ last.raised = "GoogleGenerativeAIError"
    \/ last.kind = "ask" /\ last.failed \in { "retriever", "llm" }

\* C6: a failed embedding or completion call is shown as the model error with
\* the hint to rephrase or check the key, never as a fetch failure
C6_ModelFailureShownAsModelError ==
    ModelCallFailed =>
        /\ Showed("error", MSG_GENERATING)
        /\ Showed("info", MSG_ASK_HINT)
        /\ ~Showed("error", MSG_PROCESSING)

\* C7: a script run calls each collaborator at most once, and makes no call
\* after one has failed
C7_NoRetry ==
    /\ calls.captions <= 1
    /\ calls.from_texts <= 1
    /\ calls.retriever <= 1
    /\ calls.llm <= 1
    /\ last.kind = "fetch" => calls.retriever = 0 /\ calls.llm = 0
    /\ last.kind = "ask" => calls.captions = 0 /\ calls.from_texts = 0
    /\ last.failed = "captions" => calls.from_texts = 0
    /\ last.failed = "retriever" => calls.llm = 0

\* the completion call failed, after one attempt
C7_Witness ==
    /\ last.kind = "ask"
    /\ last.failed = "llm"
    /\ calls.llm = 1

\* C8: a script run started by the generate button, or by the fetch button
\* with an empty URL, changes none of transcript, index and label
C8_OnlyFetchAndClearMutate ==
    [][last'.kind \in { "ask", "ask_empty", "fetch_empty" }
        => UNCHANGED << transcript_text, vectorstore, video_title >>]_vars

\* the fetch button was clicked with an empty URL while a video was loaded
C8_Witness ==
    /\ last.kind = "fetch_empty"
    /\ ChatAvailable
    /\ transcript_text # << >>

\* the contexts the retriever can assemble from a transcript
RetrievableContexts(text) ==
    LET chunks == split_text(text)
    IN  { join(STR_PARA, [i \in 1..Len(r) |-> chunks[r[i]]]) : r \in TopK(chunks, k) }

\* C10: after a failed fetch the earlier transcript and index are gone and the
\* question interface is unavailable; a question sent to the language model
\* carries context from the transcript of the latest fetch with a non-empty
\* URL, and that fetch succeeded
C10_ContextFromLatestSuccessfulFetch ==
    /\ (last.kind = "fetch" /\ ~last.ok) =>
          /\ vectorstore = None
          /\ ~ChatAvailable
          /\ transcript_text =
                (IF last.failed = "captions" THEN << >> ELSE loaded[1].text)
    /\ prompt # None =>
          /\ loaded # None
          /\ loaded[1].ok
          /\ IF variant = "App"
             THEN prompt[1].context = loaded[1].text
             ELSE prompt[1].context \in RetrievableContexts(loaded[1].text)

\* a question was sent to the language model in the retrieval variant
C10_Witness ==
    /\ variant = "main"
    /\ last.kind = "ask"
    /\ prompt # None
    /\ prompt[1].context # << >>

----------------------------------------------------------------------------
(* Claims about the identifier extraction *)

\* the text of s after the first occurrence of sub, which s contains
After(s, sub) == Drop(s, Find(s, sub) + Len(sub) - 1)

\* the text of s before the first occurrence of any member of stops, or all
\* of s when none occurs
Before(s, stops) ==
    LET hits == { Find(s, t) : t \in stops } \ { 0 }
    IN  IF hits = { }
        THEN s
        ELSE Take(s, (CHOOSE h \in hits : \A g \in hits : h <= g) - 1)

\* the identifier as the specification words it
IdAsClaimed(url) ==
    IF Contains(url, STR_V_EQ)
    THEN Before(After(url, STR_V_EQ), { STR_AMP })
    ELSE IF Contains(url, STR_YOUTU_BE)
    THEN Before(After(url, STR_YOUTU_BE), { STR_QMARK })
    ELSE strip(url)

\* the identifier with a second occurrence of the marker ending it too
IdAmended(url) ==
    IF Contains(url, STR_V_EQ)
    THEN Before(After(url, STR_V_EQ), { STR_AMP, STR_V_EQ })
    ELSE IF Contains(url, STR_YOUTU_BE)
    THEN Before(After(url, STR_YOUTU_BE), { STR_QMARK, STR_YOUTU_BE })
    ELSE strip(url)

\* C4 as stated: the identifier is the text after v= up to the next & or the
\* end, else the text after youtu.be/ up to ? or the end, else the trimmed input
C4_AsClaimed ==
    out_video_id # None => out_video_id[1] = IdAsClaimed(in_url)

\* C4 amended: the identifier is the text after the first v= up to the next &,
\* the next v= or the end; else the text after the first youtu.be/ up to the
\* next ?, the next youtu.be/ or the end; else the trimmed input; the three
\* example inputs yield ABC123
C4_ExtractionAmended ==
    out_video_id # None =>
        /\ out_video_id[1] = IdAmended(in_url)
        /\ in_url \in ExampleUrls => out_video_id[1] = STR_ABC123

\* the identifier "A" of the input "v=Av=A", which has two v= markers, has
\* been extracted
C4_Witness ==
    /\ out_video_id # None
    /\ in_url = STR_V_EQ \o << 65 >> \o STR_V_EQ \o << 65 >>
    /\ out_video_id[1] = << 65 >>

----------------------------------------------------------------------------
(* Claims about the chunker *)

\* C9 as stated: a transcript shorter than the chunk size yields exactly one
\* chunk, equal to the transcript
C9_AsClaimed ==
    (out_chunks # None /\ Len(in_text) < chunk_size) =>
        out_chunks[1] = << in_text >>

\* C9 amended: a transcript shorter than the chunk size with a character that
\* is not whitespace yields exactly one chunk, the transcript without its
\* leading and trailing whitespace; an empty or all-whitespace one yields none
C9_OneStrippedChunk ==
    (out_chunks # None /\ Len(in_text) < chunk_size) =>
        IF \A i \in DOMAIN in_text : in_text[i] \in Whitespace
        THEN out_chunks[1] = << >>
        ELSE /\ Len(out_chunks[1]) = 1
             /\ out_chunks[1][1] = strip(in_text)

\* the short transcript "\xa0a\na " with inner and surrounding whitespace has
\* been chunked into "a\na"
C9_Witness ==
    /\ out_chunks # None
    /\ in_text = << 160, 97, 10, 97, 32 >>
    /\ out_chunks[1] = << << 97, 10, 97 >> >>

====
